---- MODULE Spec2Model ----
(***************************************************************************)
(* State-machine model of prediction_market_bot.py: the ledger (users),    *)
(* the market registry (markets, next_market_id), the text of the state    *)
(* file on disk, the reply of the last command, the lock and the frame of  *)
(* each thread inside process_command.  Time stamps (created_at,           *)
(* resolved_at, updated_at) carry no behaviour and are left out.           *)
(***************************************************************************)
EXTENDS Integers, Sequences, FiniteSets, TLC

VARIABLES users, markets, next_market_id, disk, response, lock, frame

vars == <<users, markets, next_market_id, disk, response, lock, frame>>

(***************************************************************************)
(* Program constants.                                                      *)
(***************************************************************************)
STARTING_BALANCE == 1000

\* Python's None for Market.winning_option (valid indices are >= 0).
None == -1

\* The option length limit of _cmd_open.
MaxOptionLen == 40

(***************************************************************************)
(* Bounds of the model: the markets opened and the bets accepted in the    *)
(* general specification, and the bets accepted on the one market of the   *)
(* settlement specification.                                               *)
(***************************************************************************)
MaxMarkets == 2
MaxBets == 2
MaxSettleBets == 3

(***************************************************************************)
(* Command arguments.                                                      *)
(***************************************************************************)
\* A numeric command argument as typed: a token int() parses, or one it
\* rejects with ValueError.
Num(n) == [isnum |-> TRUE, val |-> n]
NaN == [isnum |-> FALSE, val |-> 0]

\* Option strings and their len(); LongOption stands for a 41 character one.
LongOption == "LongOption"
StrLen(s) == CASE s = "" -> 0
               [] s = LongOption -> 41
               [] OTHER -> 1

(***************************************************************************)
(* Generic helpers.                                                        *)
(***************************************************************************)
EmptyMap == [x \in {} |-> 0]

\* dict[key] = value
Put(d, k, v) == [x \in (DOMAIN d) \cup {k} |-> IF x = k THEN v ELSE d[x]]

RECURSIVE SumAmounts(_)
SumAmounts(bets) ==
    IF bets = <<>> THEN 0
    ELSE bets[1].amount + SumAmounts(Tail(bets))

(***************************************************************************)
(* Market ids: f"MKT{n:04d}" as the prefix followed by the decimal digits, *)
(* zero padded to width 4; str.upper() acts on the prefix.                 *)
(***************************************************************************)
RECURSIVE DigitsOf(_)
DigitsOf(n) == IF n < 10 THEN <<n>> ELSE DigitsOf(n \div 10) \o <<n % 10>>

RECURSIVE ZeroPad(_, _)
ZeroPad(ds, w) == IF Len(ds) >= w THEN ds ELSE ZeroPad(<<0>> \o ds, w)

FormatId(n) == <<"MKT">> \o ZeroPad(DigitsOf(n), 4)

Upper(token) == [token EXCEPT ![1] = IF @ = "mkt" THEN "MKT" ELSE @]

(***************************************************************************)
(* Market                                                                  *)
(***************************************************************************)
Bet(user, option_idx, amount) ==
    [user |-> user, option_index |-> option_idx, amount |-> amount]

Market(market_id, question, creator, options) ==
    [market_id |-> market_id, question |-> question, creator |-> creator,
     options |-> options, status |-> "open", bets |-> <<>>,
     winning_option |-> None]

total_pool(market) == SumAmounts(market.bets)

\* Indexed by the 0-based option index.
pool_by_option(market) ==
    [i \in 0..(Len(market.options) - 1) |->
        SumAmounts(SelectSeq(market.bets, LAMBDA b : b.option_index = i))]

(***************************************************************************)
(* Persistence: the snapshot _save_state writes.                           *)
(***************************************************************************)
\* Bet.to_dict (asdict) and Bet.from_dict
bet_to_dict(bet) ==
    [user |-> bet.user, option_index |-> bet.option_index, amount |-> bet.amount]

bet_from_dict(data) == Bet(data.user, data.option_index, data.amount)

\* Market.to_dict
to_dict(market) ==
    [market_id |-> market.market_id, question |-> market.question,
     creator |-> market.creator, options |-> market.options,
     status |-> market.status,
     bets |-> [i \in 1..Len(market.bets) |-> bet_to_dict(market.bets[i])],
     winning_option |-> market.winning_option]

\* The data dictionary _save_state builds.
save_state(us, ms, nid) ==
    [users |-> us,
     markets |-> [mid \in DOMAIN ms |-> to_dict(ms[mid])],
     next_market_id |-> nid]

\* JSON has null where Python has None, and a number otherwise.
JsonNull == [json |-> "null"]
JsonInt(n) == [json |-> "number", val |-> n]

\* json.dumps(data, sort_keys=True): the text of the object, its members in
\* key order and the closing brace that completes it.
json_dumps(data) ==
    [members |->
        <<[key |-> "markets",
           value |-> [mid \in DOMAIN data.markets |->
                        [data.markets[mid] EXCEPT
                            !.winning_option =
                                IF @ = None THEN JsonNull ELSE JsonInt(@)]]],
          [key |-> "next_market_id", value |-> data.next_market_id],
          [key |-> "users", value |-> data.users]>>,
     closed |-> TRUE]

\* json.loads accepts a text only when it is a complete object.
Parses(text) == text.closed

\* json.loads(text): the dictionary of a complete text.
json_loads(text) ==
    [k \in {text.members[i].key : i \in 1..Len(text.members)} |->
        LET i == CHOOSE j \in 1..Len(text.members) : text.members[j].key = k
            v == text.members[i].value
        IN  IF k = "markets"
            THEN [mid \in DOMAIN v |->
                    [v[mid] EXCEPT
                        !.winning_option =
                            IF @ = JsonNull THEN None ELSE @.val]]
            ELSE v]

\* dict.get(key, default)
Get(d, key, default) == IF key \in DOMAIN d THEN d[key] ELSE default

\* Mutant: the winning option is not read back.
from_dict_no_winner(payload) ==
    [market_id |-> payload.market_id, question |-> payload.question,
     creator |-> payload.creator, options |-> payload.options,
     status |-> Get(payload, "status", "open"),
     bets |-> LET saved == Get(payload, "bets", <<>>)
              IN  [i \in 1..Len(saved) |-> bet_from_dict(saved[i])],
     winning_option |-> None]

\* Market.from_dict
from_dict(payload) ==
    [market_id |-> payload.market_id, question |-> payload.question,
     creator |-> payload.creator, options |-> payload.options,
     status |-> Get(payload, "status", "open"),
     bets |-> LET saved == Get(payload, "bets", <<>>)
              IN  [i \in 1..Len(saved) |-> bet_from_dict(saved[i])],
     winning_option |-> Get(payload, "winning_option", None)]

\* Mutant: the id counter is not read back from the file.
load_state_counter_reset(text) ==
    LET data == json_loads(text)
        saved == Get(data, "markets", [x \in {} |-> 0])
    IN  [users |-> Get(data, "users", [x \in {} |-> 0]),
         markets |-> [mid \in DOMAIN saved |-> from_dict(saved[mid])],
         next_market_id |-> 1]

\* _load_state on an existing file: what the ledger, the registry and the id
\* counter are set to.
load_state(text) ==
    LET data == json_loads(text)
        saved == Get(data, "markets", [x \in {} |-> 0])
    IN  [users |-> Get(data, "users", [x \in {} |-> 0]),
         markets |-> [mid \in DOMAIN saved |-> from_dict(saved[mid])],
         next_market_id |-> Get(data, "next_market_id", 1)]

(***************************************************************************)
(* Ledger                                                                  *)
(***************************************************************************)
NewAccount ==
    [balance |-> STARTING_BALANCE, lifetime_winnings |-> 0,
     markets_created |-> 0, bets_placed |-> 0]

ensure_user(us, user) ==
    IF user \in DOMAIN us THEN us ELSE Put(us, user, NewAccount)

\* Mutant: the amount is not added to the balance.
CreditDropped(us, user, amount) == us

\* self.users[user]["balance"] += amount
Credit(us, user, amount) ==
    [us EXCEPT ![user].balance = @ + amount]

\* Mutant: refunds are booked as winnings too.
RECURSIVE RefundAllAsWinnings(_, _)
RefundAllAsWinnings(us, bets) ==
    IF bets = <<>> THEN us
    ELSE RefundAllAsWinnings(
             [us EXCEPT ![bets[1].user].balance = @ + bets[1].amount,
                        ![bets[1].user].lifetime_winnings = @ + bets[1].amount],
             Tail(bets))

\* for bet in market.bets: self.users[bet.user]["balance"] += bet.amount
RECURSIVE RefundAll(_, _)
RefundAll(us, bets) ==
    IF bets = <<>> THEN us
    ELSE RefundAll(Credit(us, bets[1].user, bets[1].amount), Tail(bets))

\* What a handler leaves behind: the ledger, the registry, the id counter
\* and the reply.
Outcome(us, ms, nid, resp) ==
    [users |-> us, markets |-> ms, next_market_id |-> nid, response |-> resp]

Reply(kind) == [kind |-> kind]

(***************************************************************************)
(* _cmd_open.  argline is the list of segments between the "|" separators, *)
(* each already stripped; a single segment means there was no "|".         *)
(***************************************************************************)
\* Mutant: the length of the options is not looked at.
cmd_open_any_length(us, ms, nid, user, argline) ==
    LET question == argline[1]
        options == SelectSeq(Tail(argline), LAMBDA opt : opt /= "")
        market_id == FormatId(nid)
    IN  IF Len(argline) < 2 THEN Outcome(us, ms, nid, Reply("open_usage"))
        ELSE IF question = "" THEN Outcome(us, ms, nid, Reply("open_no_question"))
        ELSE IF Len(options) < 2 THEN Outcome(us, ms, nid, Reply("open_few_options"))
        ELSE Outcome([us EXCEPT ![user].markets_created = @ + 1],
                     Put(ms, market_id, Market(market_id, question, user, options)),
                     nid + 1,
                     [kind |-> "open_created", market_id |-> market_id])

cmd_open(us, ms, nid, user, argline) ==
    LET question == argline[1]
        options == SelectSeq(Tail(argline), LAMBDA opt : opt /= "")
        market_id == FormatId(nid)
    IN  IF Len(argline) < 2 THEN Outcome(us, ms, nid, Reply("open_usage"))
        ELSE IF question = "" THEN Outcome(us, ms, nid, Reply("open_no_question"))
        ELSE IF Len(options) < 2 THEN Outcome(us, ms, nid, Reply("open_few_options"))
        ELSE IF \E i \in 1..Len(options) : StrLen(options[i]) > MaxOptionLen
             THEN Outcome(us, ms, nid, Reply("open_long_option"))
        ELSE Outcome([us EXCEPT ![user].markets_created = @ + 1],
                     Put(ms, market_id, Market(market_id, question, user, options)),
                     nid + 1,
                     [kind |-> "open_created", market_id |-> market_id])

(***************************************************************************)
(* _cmd_bet.  parts is argline.split().                                    *)
(***************************************************************************)
\* Mutant: the stake is added to the balance.
BetAcceptedSignSlip(us, user, amount) ==
    [us EXCEPT ![user].balance = @ + amount, ![user].bets_placed = @ + 1]

BetAccepted(us, user, amount) ==
    [us EXCEPT ![user].balance = @ - amount, ![user].bets_placed = @ + 1]

\* Mutant: the stake is debited without looking at the balance.
place_bet_unchecked(us, ms, nid, user, market, option_idx, amount) ==
    LET placed == [market EXCEPT !.bets = Append(@, Bet(user, option_idx, amount))]
    IN  Outcome(BetAccepted(us, user, amount),
                [ms EXCEPT ![market.market_id] = placed],
                nid,
                [kind |-> "bet_accepted", market_id |-> market.market_id,
                 amount |-> amount, option_index |-> option_idx,
                 option_pool |-> pool_by_option(placed)[option_idx],
                 total |-> total_pool(placed)])

\* Mutant: the bet is counted before the balance is looked at.
place_bet_counted_first(us, ms, nid, user, market, option_idx, amount) ==
    LET counted == [us EXCEPT ![user].bets_placed = @ + 1]
        balance == us[user].balance
        placed == [market EXCEPT !.bets = Append(@, Bet(user, option_idx, amount))]
    IN  IF amount > balance
        THEN Outcome(counted, ms, nid,
                     [kind |-> "bet_insufficient", balance |-> balance])
        ELSE Outcome([counted EXCEPT ![user].balance = @ - amount],
                     [ms EXCEPT ![market.market_id] = placed],
                     nid,
                     [kind |-> "bet_accepted", market_id |-> market.market_id,
                      amount |-> amount, option_index |-> option_idx,
                      option_pool |-> pool_by_option(placed)[option_idx],
                      total |-> total_pool(placed)])

\* The balance check and the placement that follows it.
place_bet(us, ms, nid, user, market, option_idx, amount) ==
    LET balance == us[user].balance
        placed == [market EXCEPT !.bets = Append(@, Bet(user, option_idx, amount))]
    IN  IF amount > balance
        THEN Outcome(us, ms, nid, [kind |-> "bet_insufficient", balance |-> balance])
        ELSE Outcome(BetAccepted(us, user, amount),
                     [ms EXCEPT ![market.market_id] = placed],
                     nid,
                     [kind |-> "bet_accepted", market_id |-> market.market_id,
                      amount |-> amount, option_index |-> option_idx,
                      option_pool |-> pool_by_option(placed)[option_idx],
                      total |-> total_pool(placed)])

\* Mutant: the market's status is not looked at.
cmd_bet_any_status(us, ms, nid, user, parts) ==
    IF Len(parts) /= 3 THEN Outcome(us, ms, nid, Reply("bet_usage"))
    ELSE
    LET market_id == Upper(parts[1])
        option_raw == parts[2]
        amount_raw == parts[3]
    IN  IF market_id \notin DOMAIN ms THEN Outcome(us, ms, nid, Reply("bet_not_found"))
        ELSE
        LET market == ms[market_id]
            option_idx == option_raw.val - 1
            amount == amount_raw.val
        IN  IF ~option_raw.isnum THEN Outcome(us, ms, nid, Reply("bet_option_nan"))
            ELSE IF option_idx < 0 \/ option_idx >= Len(market.options)
                 THEN Outcome(us, ms, nid, Reply("bet_option_range"))
            ELSE IF ~amount_raw.isnum THEN Outcome(us, ms, nid, Reply("bet_amount_nan"))
            ELSE IF amount <= 0 THEN Outcome(us, ms, nid, Reply("bet_nonpositive"))
            ELSE place_bet(us, ms, nid, user, market, option_idx, amount)

cmd_bet(us, ms, nid, user, parts) ==
    IF Len(parts) /= 3 THEN Outcome(us, ms, nid, Reply("bet_usage"))
    ELSE
    LET market_id == Upper(parts[1])
        option_raw == parts[2]
        amount_raw == parts[3]
    IN  IF market_id \notin DOMAIN ms THEN Outcome(us, ms, nid, Reply("bet_not_found"))
        ELSE
        LET market == ms[market_id]
            option_idx == option_raw.val - 1
            amount == amount_raw.val
        IN  IF market.status /= "open" THEN Outcome(us, ms, nid, Reply("bet_closed"))
            ELSE IF ~option_raw.isnum THEN Outcome(us, ms, nid, Reply("bet_option_nan"))
            ELSE IF option_idx < 0 \/ option_idx >= Len(market.options)
                 THEN Outcome(us, ms, nid, Reply("bet_option_range"))
            ELSE IF ~amount_raw.isnum THEN Outcome(us, ms, nid, Reply("bet_amount_nan"))
            ELSE IF amount <= 0 THEN Outcome(us, ms, nid, Reply("bet_nonpositive"))
            ELSE place_bet(us, ms, nid, user, market, option_idx, amount)

(***************************************************************************)
(* _resolve_market: the settlement.  A payout is the pair <<user, payout>>. *)
(***************************************************************************)
\* Mutant: a winning stake is paid its share of the losing stakes only.
PayoutNetOfStake(bet, pool, winners_total) ==
    (bet.amount * (pool - winners_total)) \div winners_total

\* Mutant: a winning stake is paid the share of the other winning stakes.
PayoutOfOthers(bet, pool, winners_total) ==
    ((winners_total - bet.amount) * pool) \div winners_total

\* Mutant: the division is done before the multiplication.
PayoutDivFirst(bet, pool, winners_total) == bet.amount * (pool \div winners_total)

Payout(bet, pool, winners_total) == (bet.amount * pool) \div winners_total

RECURSIVE SumPayouts(_)
SumPayouts(payouts) ==
    IF payouts = <<>> THEN 0
    ELSE payouts[1][2] + SumPayouts(Tail(payouts))

\* Mutant: an item goes ahead of the items of equal payout (an unstable sort).
InsertDescUnstable(sorted, item) ==
    LET ahead == Cardinality({i \in 1..Len(sorted) : sorted[i][2] > item[2]})
    IN  SubSeq(sorted, 1, ahead) \o <<item>> \o SubSeq(sorted, ahead + 1, Len(sorted))

\* Where list.sort(key=payout, reverse=True) puts one more item: behind every
\* item whose payout is at least as large (the sort is stable).
InsertDesc(sorted, item) ==
    LET ahead == Cardinality({i \in 1..Len(sorted) : sorted[i][2] >= item[2]})
    IN  SubSeq(sorted, 1, ahead) \o <<item>> \o SubSeq(sorted, ahead + 1, Len(sorted))

RECURSIVE SortPayouts(_)
SortPayouts(payouts) ==
    IF payouts = <<>> THEN <<>>
    ELSE InsertDesc(SortPayouts(SubSeq(payouts, 1, Len(payouts) - 1)),
                    payouts[Len(payouts)])

\* Mutant: the leftover of the floor divisions is dropped.
DistributeNothing(payouts, remainder) == payouts

\* idx = 0; while remainder > 0 and payouts: payouts[idx % len(payouts)] += 1;
\* remainder -= 1; idx += 1.  The loop visits idx = 0 .. remainder - 1, so
\* the item at 0-based position p gains one unit for every such idx with
\* idx % len(payouts) = p.
Distribute(payouts, remainder) ==
    IF remainder > 0 /\ payouts /= <<>>
    THEN [k \in 1..Len(payouts) |->
            <<payouts[k][1],
              payouts[k][2]
                  + Cardinality({idx \in 0..(remainder - 1) :
                                    idx % Len(payouts) = k - 1})>>]
    ELSE payouts

\* for user, payout in payouts: balance += payout; lifetime_winnings += payout
RECURSIVE ApplyPayouts(_, _)
ApplyPayouts(us, payouts) ==
    IF payouts = <<>> THEN us
    ELSE LET user == payouts[1][1]
             payout == payouts[1][2]
         IN  ApplyPayouts([us EXCEPT ![user].balance = @ + payout,
                                     ![user].lifetime_winnings = @ + payout],
                          Tail(payouts))

\* Mutant: the market is closed without its winning option being recorded.
ResolvedStatusOnly(market, winning_idx) ==
    [market EXCEPT !.status = "resolved"]

Resolved(market, winning_idx) ==
    [market EXCEPT !.status = "resolved", !.winning_option = winning_idx]

resolve_market(us, ms, nid, market, winning_idx) ==
    LET winners == SelectSeq(market.bets, LAMBDA bet : bet.option_index = winning_idx)
        pool == total_pool(market)
        winners_total == SumAmounts(winners)
    IN  IF winners_total = 0
        THEN Outcome(RefundAll(us, market.bets),
                     [ms EXCEPT ![market.market_id] = Resolved(market, winning_idx)],
                     nid,
                     [kind |-> "resolve_refunded",
                      market_id |-> market.market_id,
                      winning_idx |-> winning_idx])
        ELSE
        LET floored == [i \in 1..Len(winners) |->
                           <<winners[i].user, Payout(winners[i], pool, winners_total)>>]
            remainder == pool - SumPayouts(floored)
        IN  \* the reply lists the payouts in their final order
            LET payouts == Distribute(SortPayouts(floored), remainder)
            IN  Outcome(ApplyPayouts(us, payouts),
                        [ms EXCEPT ![market.market_id] = Resolved(market, winning_idx)],
                        nid,
                        [kind |-> "resolve_wins",
                         market_id |-> market.market_id,
                         winning_idx |-> winning_idx,
                         payouts |-> payouts])

(***************************************************************************)
(* _cmd_resolve.  parts is argline.split().                                *)
(***************************************************************************)
cmd_resolve(us, ms, nid, user, parts) ==
    IF Len(parts) /= 2 THEN Outcome(us, ms, nid, Reply("resolve_usage"))
    ELSE
    LET market_id == Upper(parts[1])
        option_raw == parts[2]
    IN  IF market_id \notin DOMAIN ms
        THEN Outcome(us, ms, nid, Reply("resolve_not_found"))
        ELSE
        LET market == ms[market_id]
            winning_idx == option_raw.val - 1
        IN  IF market.status /= "open"
            THEN Outcome(us, ms, nid, Reply("resolve_already"))
            ELSE IF ~option_raw.isnum
                 THEN Outcome(us, ms, nid, Reply("resolve_option_nan"))
            ELSE IF winning_idx < 0 \/ winning_idx >= Len(market.options)
                 THEN Outcome(us, ms, nid, Reply("resolve_option_range"))
            ELSE resolve_market(us, ms, nid, market, winning_idx)

(***************************************************************************)
(* _cmd_cancel.  parts holds the stripped argline, or nothing when empty.  *)
(***************************************************************************)
\* Mutant: cancelling clears the market's book.
CancelledCleared(market) == [market EXCEPT !.status = "cancelled", !.bets = <<>>]

Cancelled(market) == [market EXCEPT !.status = "cancelled"]

\* Mutant: a market is cancelled whatever its status.
cmd_cancel_any_status(us, ms, nid, user, parts) ==
    IF parts = <<>> THEN Outcome(us, ms, nid, Reply("cancel_usage"))
    ELSE
    LET market_id == Upper(parts[1])
    IN  IF market_id \notin DOMAIN ms
        THEN Outcome(us, ms, nid, Reply("cancel_not_found"))
        ELSE Outcome(RefundAll(us, ms[market_id].bets),
                     [ms EXCEPT ![market_id] = Cancelled(ms[market_id])],
                     nid,
                     [kind |-> "cancelled", market_id |-> market_id])

cmd_cancel(us, ms, nid, user, parts) ==
    IF parts = <<>> THEN Outcome(us, ms, nid, Reply("cancel_usage"))
    ELSE
    LET market_id == Upper(parts[1])
    IN  IF market_id \notin DOMAIN ms
        THEN Outcome(us, ms, nid, Reply("cancel_not_found"))
        ELSE
        LET market == ms[market_id]
        IN  IF market.status /= "open"
            THEN Outcome(us, ms, nid, Reply("cancel_already"))
            ELSE Outcome(RefundAll(us, market.bets),
                         [ms EXCEPT ![market_id] = Cancelled(market)],
                         nid,
                         [kind |-> "cancelled", market_id |-> market_id])

(***************************************************************************)
(* The read-only handlers (help, markets, market, balance, leaderboard,    *)
(* portfolio, stats) only render a reply.                                  *)
(***************************************************************************)
ReadOnlyCommands ==
    {"help", "commands", "markets", "market", "balance", "leaderboard",
     "portfolio", "stats"}

cmd_read_only(us, ms, nid, cmd) == Outcome(us, ms, nid, Reply(cmd))

(***************************************************************************)
(* process_command.  A message is [bang, cmd, args]: whether it starts     *)
(* with "!", the command word ("" when none follows) and its argline.      *)
(***************************************************************************)
Handlers == {"open", "bet", "resolve", "cancel"} \cup ReadOnlyCommands

Message(cmd, args) == [bang |-> TRUE, cmd |-> cmd, args |-> args]

Untouched(us, ms, nid, dsk, kind) ==
    [users |-> us, markets |-> ms, next_market_id |-> nid, disk |-> dsk,
     response |-> Reply(kind)]

\* Mutant: the snapshot leaves the markets out.
LockedLedgerOnly(out) ==
    [users |-> out.users, markets |-> out.markets,
     next_market_id |-> out.next_market_id,
     disk |-> json_dumps(save_state(out.users, EmptyMap, out.next_market_id)),
     response |-> out.response]

\* with self.lock: response = handler(user, argline); self._save_state()
Locked(out) ==
    [users |-> out.users, markets |-> out.markets,
     next_market_id |-> out.next_market_id,
     disk |-> json_dumps(save_state(out.users, out.markets, out.next_market_id)),
     response |-> out.response]

process_command(us, ms, nid, dsk, user, message) ==
    IF user = "" THEN Untouched(us, ms, nid, dsk, "missing_user")
    ELSE IF ~message.bang THEN Untouched(us, ms, nid, dsk, "not_a_command")
    ELSE
    LET ensured == ensure_user(us, user)
        cmd == message.cmd
        argline == message.args
    IN  IF cmd = "" THEN Untouched(ensured, ms, nid, dsk, "empty_command")
        ELSE IF cmd \notin Handlers
             THEN Untouched(ensured, ms, nid, dsk, "unknown_command")
        ELSE IF cmd = "open" THEN Locked(cmd_open(ensured, ms, nid, user, argline))
        ELSE IF cmd = "bet" THEN Locked(cmd_bet(ensured, ms, nid, user, argline))
        ELSE IF cmd = "resolve"
             THEN Locked(cmd_resolve(ensured, ms, nid, user, argline))
        ELSE IF cmd = "cancel"
             THEN Locked(cmd_cancel(ensured, ms, nid, user, argline))
        ELSE Locked(cmd_read_only(ensured, ms, nid, cmd))

(***************************************************************************)
(* The state machine.  The threads that call process_command, the lock     *)
(* (threading.Lock, held by a thread or by none) and the frame of a thread *)
(* that is not inside process_command.                                     *)
(***************************************************************************)
Threads == {"t1", "t2"}

Unlocked == "unlocked"

Idle == [pc |-> "idle"]

Init ==
    /\ users = EmptyMap
    /\ markets = EmptyMap
    /\ next_market_id = 1
    /\ disk = json_dumps(save_state(EmptyMap, EmptyMap, 1))
    /\ response = Reply("none")
    /\ lock = Unlocked
    /\ frame = [t \in Threads |-> Idle]

RECURSIVE SumOver(_, _)
SumOver(f, S) ==
    IF S = {} THEN 0
    ELSE LET x == CHOOSE y \in S : TRUE IN f[x] + SumOver(f, S \ {x})

BetCount(ms) == SumOver([mid \in DOMAIN ms |-> Len(ms[mid].bets)], DOMAIN ms)

\* One call of process_command, kept within maxMarkets opened markets and
\* maxBets accepted bets.
Command(user, message, maxMarkets, maxBets) ==
    \E r \in {process_command(users, markets, next_market_id, disk, user, message)} :
        /\ r.next_market_id <= maxMarkets + 1
        /\ BetCount(r.markets) <= maxBets
        /\ users' = r.users
        /\ markets' = r.markets
        /\ next_market_id' = r.next_market_id
        /\ disk' = r.disk
        /\ response' = r.response
        /\ UNCHANGED <<lock, frame>>

Lower(token) == [token EXCEPT ![1] = "mkt"]

\* Inputs of the general specification: for each handler the arglines it
\* accepts and arglines it rejects.  A bet stakes half the starting balance
\* on the first option or all of it on the second.
Callers == {"u1", "u2"}
Creators == {"u1"}
OpenArglines == {<<"Q", "A", "B">>, <<"Q", "A", "">>, <<"Q", "A", LongOption>>}
BetArglines ==
    {<<m, Num(1), Num(500)>> : m \in {FormatId(1), Lower(FormatId(2))}}
    \cup {<<m, Num(2), Num(1000)>> : m \in {FormatId(1), Lower(FormatId(2))}}
    \cup {<<FormatId(9), Num(1), Num(500)>>,
          <<FormatId(1), Num(0), Num(500)>>,
          <<FormatId(1), Num(3), Num(500)>>,
          <<FormatId(1), Num(1), Num(0)>>,
          <<FormatId(1), Num(1), Num(-500)>>}
ResolveArglines ==
    {<<m, Num(o)>> : m \in {FormatId(1), Lower(FormatId(2))}, o \in {1, 2}}
    \cup {<<FormatId(1), Num(0)>>, <<FormatId(1), Num(3)>>}
CancelArglines == {<<FormatId(1)>>, <<Lower(FormatId(2))>>}

Open == \E user \in Creators, argline \in OpenArglines :
            Command(user, Message("open", argline), MaxMarkets, MaxBets)

PlaceBet == \E user \in Callers, argline \in BetArglines :
                Command(user, Message("bet", argline), MaxMarkets, MaxBets)

Resolve == \E user \in Callers, argline \in ResolveArglines :
               Command(user, Message("resolve", argline), MaxMarkets, MaxBets)

Cancel == \E user \in Callers, argline \in CancelArglines :
              Command(user, Message("cancel", argline), MaxMarkets, MaxBets)

Query == \E user \in Callers :
             Command(user, Message("balance", <<>>), MaxMarkets, MaxBets)

\* A command word without a handler: answered before the lock is taken.
Unhandled == \E user \in Callers :
                 Command(user, Message("frobnicate", <<>>), MaxMarkets, MaxBets)

Next == Open \/ PlaceBet \/ Resolve \/ Cancel \/ Query \/ Unhandled

Spec == Init /\ [][Next]_vars

(***************************************************************************)
(* The settlement specification: one market, opened and closed by u1, with *)
(* up to MaxSettleBets stakes of either user; the odd stake makes          *)
(* pools that the winning side does not divide.  Rejected commands are the *)
(* general specification's business and are not taken here.                *)
(***************************************************************************)
SettleStakes == {1, 100, 200, 300}
SettleBetArglines ==
    {<<FormatId(1), Num(o), Num(a)>> : o \in {1, 2}, a \in SettleStakes}

\* The replies of the commands that were carried out.
AcceptedKinds ==
    {"open_created", "bet_accepted", "resolve_wins", "resolve_refunded", "cancelled"}

\* One call of process_command that is carried out, on the only market.
Accepted(user, message) ==
    /\ Command(user, message, 1, MaxSettleBets)
    /\ response'.kind \in AcceptedKinds

SettleOpen == Accepted("u1", Message("open", <<"Q", "A", "B">>))

\* No command is carried out on a market that is not open, and no bet beyond
\* the bound: such a state is passed over without going through the handler.
SettleOpenMarket ==
    \E mid \in DOMAIN markets : markets[mid].status = "open"

SettleBet == /\ SettleOpenMarket
             /\ BetCount(markets) < MaxSettleBets
             /\ \E user \in Callers, argline \in SettleBetArglines :
                   Accepted(user, Message("bet", argline))

SettleResolve == /\ SettleOpenMarket
                 /\ \E o \in {1, 2} :
                       Accepted("u1", Message("resolve", <<FormatId(1), Num(o)>>))

SettleCancel == /\ SettleOpenMarket
                /\ Accepted("u1", Message("cancel", <<FormatId(1)>>))

NextSettle == SettleOpen \/ SettleBet \/ SettleResolve \/ SettleCancel

SpecSettle == Init /\ [][NextSettle]_vars

(***************************************************************************)
(* The threaded specification: each thread runs process_command statement  *)
(* by statement.  A frame holds the thread's position (pc) and its locals.  *)
(* One market is opened and up to MaxThreadBets bets are issued; u1 opens,  *)
(* resolves and cancels, both users bet and ask for their balance.          *)
(***************************************************************************)
MaxThreadBets == 1

ThreadCalls ==
    {<<"u1", Message("open", <<"Q", "A", "B">>)>>,
     <<"u1", Message("resolve", <<FormatId(1), Num(1)>>)>>,
     <<"u1", Message("cancel", <<FormatId(1)>>)>>}
    \cup {<<user, message>> :
            user \in Callers,
            message \in {Message("bet", <<FormatId(1), Num(1), Num(500)>>),
                         Message("bet", <<FormatId(1), Num(2), Num(1000)>>),
                         Message("balance", <<>>)}}

\* The frames of the threads that are inside process_command with command cmd.
InFlight(cmd) == {t \in Threads : frame[t].pc /= "idle" /\ frame[t].cmd = cmd}

\* process_command is entered: user and message are set.
Call(t) ==
    /\ frame[t].pc = "idle"
    /\ \E call \in ThreadCalls :
          LET user == call[1]
              message == call[2]
          IN  /\ message.cmd = "open" => next_market_id = 1 /\ InFlight("open") = {}
              /\ message.cmd = "bet" =>
                    BetCount(markets) + Cardinality(InFlight("bet")) < MaxThreadBets
              /\ frame' = [frame EXCEPT ![t] =
                              [pc |-> "ensure_user", user |-> user,
                               cmd |-> message.cmd, args |-> message.args]]
    /\ UNCHANGED <<users, markets, next_market_id, disk, response, lock>>

\* _ensure_user: if user not in self.users
EnsureUserTest(t) ==
    /\ frame[t].pc = "ensure_user"
    /\ frame' = [frame EXCEPT ![t].pc =
                    IF frame[t].user \in DOMAIN users THEN "acquire" ELSE "create_user"]
    /\ UNCHANGED <<users, markets, next_market_id, disk, response, lock>>

\* _ensure_user: self.users[user] = {...}
EnsureUserCreate(t) ==
    /\ frame[t].pc = "create_user"
    /\ users' = Put(users, frame[t].user, NewAccount)
    /\ frame' = [frame EXCEPT ![t].pc = "acquire"]
    /\ UNCHANGED <<markets, next_market_id, disk, response, lock>>

\* Mutant: the lock is taken whoever holds it.
CanAcquireAlways(holder) == TRUE

\* threading.Lock.acquire goes through when no thread holds the lock.
CanAcquire(holder) == holder = Unlocked

\* with self.lock:
Acquire(t) ==
    /\ frame[t].pc = "acquire"
    /\ CanAcquire(lock)
    /\ lock' = t
    /\ frame' = [frame EXCEPT ![t].pc = "handler"]
    /\ UNCHANGED <<users, markets, next_market_id, disk, response>>

\* A frame with more locals set.
With(f, more) ==
    [k \in DOMAIN f \cup DOMAIN more |-> IF k \in DOMAIN more THEN more[k] ELSE f[k]]

\* The credits a settlement makes, as <<user, amount>> in the order made.
Refunds(bets) == [i \in 1..Len(bets) |-> <<bets[i].user, bets[i].amount>>]

\* response = handler(user, argline), up to the handler's first write to the
\* ledger or the registry.  _cmd_open and the read-only handlers are one
\* step; a bet that passed its checks goes on to debit, a resolve or cancel
\* that passed its checks goes on to credit what it has computed.
Handler(t) ==
    /\ frame[t].pc = "handler"
    /\ LET f == frame[t]
       IN  \E r \in {IF f.cmd = "open"
                        THEN cmd_open(users, markets, next_market_id, f.user, f.args)
                     ELSE IF f.cmd = "bet"
                        THEN cmd_bet(users, markets, next_market_id, f.user, f.args)
                     ELSE IF f.cmd = "resolve"
                        THEN cmd_resolve(users, markets, next_market_id, f.user, f.args)
                     ELSE IF f.cmd = "cancel"
                        THEN cmd_cancel(users, markets, next_market_id, f.user, f.args)
                     ELSE cmd_read_only(users, markets, next_market_id, f.cmd)} :
              IF r.response.kind = "bet_accepted"
              THEN /\ frame' = [frame EXCEPT ![t] =
                                  With(f, [pc |-> "bet_debit",
                                           market_id |-> r.response.market_id,
                                           option_idx |-> r.response.option_index,
                                           amount |-> r.response.amount])]
                   /\ UNCHANGED <<users, markets, next_market_id>>
              ELSE IF r.response.kind \in {"resolve_wins", "resolve_refunded", "cancelled"}
              THEN /\ frame' = [frame EXCEPT ![t] =
                                  With(f, [pc |-> "settle_credit",
                                           market_id |-> r.response.market_id,
                                           winnings |-> r.response.kind = "resolve_wins",
                                           queue |->
                                              IF r.response.kind = "resolve_wins"
                                              THEN r.response.payouts
                                              ELSE Refunds(markets[r.response.market_id].bets),
                                           reply |-> r.response])]
                   /\ UNCHANGED <<users, markets, next_market_id>>
              ELSE /\ users' = r.users
                   /\ markets' = r.markets
                   /\ next_market_id' = r.next_market_id
                   /\ frame' = [frame EXCEPT ![t] =
                                  With(f, [pc |-> "save", reply |-> r.response])]
    /\ UNCHANGED <<disk, response, lock>>

\* _cmd_bet: balance -= amount; bets_placed += 1
BetDebit(t) ==
    /\ frame[t].pc = "bet_debit"
    /\ users' = BetAccepted(users, frame[t].user, frame[t].amount)
    /\ frame' = [frame EXCEPT ![t].pc = "bet_append"]
    /\ UNCHANGED <<markets, next_market_id, disk, response, lock>>

\* _cmd_bet: market.bets.append(...) and the reply
BetAppend(t) ==
    /\ frame[t].pc = "bet_append"
    /\ LET f == frame[t]
           placed == [markets[f.market_id] EXCEPT
                         !.bets = Append(@, Bet(f.user, f.option_idx, f.amount))]
       IN  /\ markets' = [markets EXCEPT ![f.market_id] = placed]
           /\ frame' = [frame EXCEPT ![t] =
                          With(f, [pc |-> "save",
                                   reply |->
                                      [kind |-> "bet_accepted",
                                       market_id |-> f.market_id,
                                       amount |-> f.amount,
                                       option_index |-> f.option_idx,
                                       option_pool |-> pool_by_option(placed)[f.option_idx],
                                       total |-> total_pool(placed)]])]
    /\ UNCHANGED <<users, next_market_id, disk, response, lock>>

\* One turn of a crediting loop of _resolve_market or _cmd_cancel.
SettleCredit(t) ==
    /\ frame[t].pc = "settle_credit"
    /\ frame[t].queue /= <<>>
    /\ LET f == frame[t]
           credit == Head(f.queue)
       IN  /\ users' = IF f.winnings THEN ApplyPayouts(users, <<credit>>)
                       ELSE Credit(users, credit[1], credit[2])
           /\ frame' = [frame EXCEPT ![t].queue = Tail(@)]
    /\ UNCHANGED <<markets, next_market_id, disk, response, lock>>

\* After the loop: market.status and, when resolving, market.winning_option.
SettleClose(t) ==
    /\ frame[t].pc = "settle_credit"
    /\ frame[t].queue = <<>>
    /\ LET f == frame[t]
       IN  markets' = [markets EXCEPT ![f.market_id] =
                          IF f.cmd = "cancel" THEN Cancelled(@)
                          ELSE Resolved(@, f.reply.winning_idx)]
    /\ frame' = [frame EXCEPT ![t].pc = "save"]
    /\ UNCHANGED <<users, next_market_id, disk, response, lock>>

\* self._save_state()
Save(t) ==
    /\ frame[t].pc = "save"
    /\ disk' = json_dumps(save_state(users, markets, next_market_id))
    /\ frame' = [frame EXCEPT ![t].pc = "return"]
    /\ UNCHANGED <<users, markets, next_market_id, response, lock>>

\* return response: the with block releases the lock.
Return(t) ==
    /\ frame[t].pc = "return"
    /\ lock' = Unlocked
    /\ response' = frame[t].reply
    /\ frame' = [frame EXCEPT ![t] = Idle]
    /\ UNCHANGED <<users, markets, next_market_id, disk>>

NextThreads ==
    \E t \in Threads :
       \/ Call(t) \/ EnsureUserTest(t) \/ EnsureUserCreate(t) \/ Acquire(t)
       \/ Handler(t) \/ BetDebit(t) \/ BetAppend(t)
       \/ SettleCredit(t) \/ SettleClose(t) \/ Save(t) \/ Return(t)

SpecThreads == Init /\ [][NextThreads]_vars

(***************************************************************************)
(* The restart specification: the commands of the general specification,   *)
(* and the process stopped between two commands and started again, which   *)
(* constructs the bot anew from the state file.                            *)
(***************************************************************************)
\* __init__ followed by _load_state on the file the last run left.
Restart ==
    /\ Parses(disk)
    /\ \E r \in {load_state(disk)} :
          /\ users' = r.users
          /\ markets' = r.markets
          /\ next_market_id' = r.next_market_id
    /\ response' = Reply("restarted")
    /\ lock' = Unlocked
    /\ frame' = [t \in Threads |-> Idle]
    /\ UNCHANGED disk

NextRestart == Next \/ Restart

SpecRestart == Init /\ [][NextRestart]_vars

(***************************************************************************)
(* The opening specification: open commands with every list of up to two   *)
(* option segments, empty and over-long ones included, with lists of three *)
(* segments and with a missing question.                                   *)
(***************************************************************************)
OptionSegments == {"", "A", "B", LongOption}

OptionLists ==
    {<<>>} \cup [1..1 -> OptionSegments] \cup [1..2 -> OptionSegments]
    \cup {<<"A", "", "B">>, <<"", "A", "B">>, <<"A", "B", "">>, <<"A", "", "">>,
          <<"A", "B", "A">>, <<"A", "B", LongOption>>}

OpenArglinesAll ==
    {<<"Q">> \o opts : opts \in OptionLists} \cup {<<"", "A", "B">>}

OpenAny == \E user \in Creators, argline \in OpenArglinesAll :
               Command(user, Message("open", argline), MaxMarkets, MaxBets)

NextOpen == OpenAny

SpecOpen == Init /\ [][NextOpen]_vars

(***************************************************************************)
(* The storage specification: commands on one market whose snapshot write  *)
(* succeeds, raises, or is cut short by the death of the process, and the   *)
(* process started again.  Path.write_text opens the file for writing,      *)
(* which empties it, and then writes the text.                             *)
(***************************************************************************)
MaxStoreBets == 1

\* What a text leaves in the file when its writing stops early: nothing, or
\* some of its members, without the closing brace.
Prefixes(text) ==
    {[members |-> SubSeq(text.members, 1, k), closed |-> FALSE] :
        k \in 0..Len(text.members)}

\* The process is alive: the last step neither killed it nor failed to start
\* it.
Running == response.kind \notin {"crashed", "load_failed"}

\* The ledger, the registry and the counter of a process that is not there:
\* what __init__ sets before _load_state.
Down(kind) ==
    /\ users' = EmptyMap
    /\ markets' = EmptyMap
    /\ next_market_id' = 1
    /\ response' = Reply(kind)
    /\ UNCHANGED <<lock, frame>>

\* A command whose snapshot write succeeds.
StoreCommand ==
    /\ Running
    /\ \E call \in ThreadCalls : Command(call[1], call[2], 1, MaxStoreBets)

\* A command whose handler has run and whose _save_state raises OSError:
\* open() fails and leaves the file as it was, or the write fails after the
\* file was emptied.  The exception leaves process_command through the with
\* block; the ledger and the registry stay as the handler left them.
SaveRaisesIn(call) ==
    /\ Running
    /\ \E r \in {process_command(users, markets, next_market_id, disk,
                                  call[1], call[2])} :
          /\ r.next_market_id <= 2
          /\ BetCount(r.markets) <= MaxStoreBets
          /\ users' = r.users
          /\ markets' = r.markets
          /\ next_market_id' = r.next_market_id
          /\ disk' \in {disk} \cup Prefixes(r.disk)
          /\ response' = Reply("save_raised")
          /\ UNCHANGED <<lock, frame>>

SaveRaises == \E call \in ThreadCalls : SaveRaisesIn(call)

\* The process dies while _save_state writes the snapshot of a command.
CrashInSave ==
    /\ Running
    /\ \E call \in ThreadCalls :
          \E r \in {process_command(users, markets, next_market_id, disk,
                                    call[1], call[2])} :
             /\ r.next_market_id <= 2
             /\ BetCount(r.markets) <= MaxStoreBets
             /\ disk' \in Prefixes(r.disk)
             /\ Down("crashed")

\* The process is started on a file json.loads rejects: __init__ raises.
StartFails ==
    /\ ~Parses(disk)
    /\ Down("load_failed")
    /\ UNCHANGED disk

NextStore == StoreCommand \/ SaveRaises \/ CrashInSave \/ Restart \/ StartFails

SpecStore == Init /\ [][NextStore]_vars

(***************************************************************************)
(* The round-trip specification: up to three markets, opened, resolved and *)
(* cancelled by u1, with up to MaxTripBets stakes of half a starting       *)
(* balance on the first option, and the process started again from the     *)
(* file.  Only commands that are carried out are taken.                    *)
(***************************************************************************)
MaxTripBets == 2

TripMarkets == {FormatId(1), FormatId(2), FormatId(3)}

TripCommand(user, message) ==
    /\ Command(user, message, 3, MaxTripBets)
    /\ response'.kind \in AcceptedKinds

TripOpen == TripCommand("u1", Message("open", <<"Q", "A", "B">>))

TripBet == /\ BetCount(markets) < MaxTripBets
           /\ \E user \in Callers, m \in TripMarkets :
                 TripCommand(user, Message("bet", <<m, Num(1), Num(500)>>))

TripResolve == \E m \in TripMarkets, o \in {1, 2} :
                   TripCommand("u1", Message("resolve", <<m, Num(o)>>))

TripCancel == \E m \in TripMarkets :
                  TripCommand("u1", Message("cancel", <<m>>))

NextTrip == TripOpen \/ TripBet \/ TripResolve \/ TripCancel \/ Restart

SpecTrip == Init /\ [][NextTrip]_vars

(***************************************************************************)
(* What the claims speak of.  An identity without an account holds the     *)
(* starting allotment and no statistics: its first command books them.     *)
(***************************************************************************)
BalanceOf(us, u) == IF u \in DOMAIN us THEN us[u].balance ELSE STARTING_BALANCE
WinningsOf(us, u) == IF u \in DOMAIN us THEN us[u].lifetime_winnings ELSE 0
BetsPlacedOf(us, u) == IF u \in DOMAIN us THEN us[u].bets_placed ELSE 0

\* What this step credits to u.
Credited(u) == users'[u].balance - BalanceOf(users, u)
Won(u) == users'[u].lifetime_winnings - WinningsOf(users, u)

TotalCredited == SumOver([u \in DOMAIN users' |-> Credited(u)], DOMAIN users')

\* The stakes of a list that are on one option, or of one bettor.
StakesOn(bets, idx) == SelectSeq(bets, LAMBDA b : b.option_index = idx)
StakesOf(bets, u) == SelectSeq(bets, LAMBDA b : b.user = u)

\* This step takes market mid out of the open status.
Settles(mid) == markets[mid].status = "open" /\ markets'[mid].status /= "open"

\* C1: whenever a market is resolved (with or without winners) or cancelled,
\* the amounts that step credits to the balances add up to exactly the sum of
\* the market's stakes, its total pool.
C1_SettlementConserves ==
    [][\A mid \in DOMAIN markets :
          Settles(mid) => TotalCredited = SumAmounts(markets[mid].bets)]_vars

\* A resolution has just paid at least two winners from a pool that their
\* side does not divide.
C1_Witness ==
    /\ response.kind = "resolve_wins"
    /\ LET m == markets[response.market_id]
           winners == StakesOn(m.bets, m.winning_option)
       IN  /\ Len(winners) >= 2
           /\ \E i \in 1..Len(winners) :
                 (winners[i].amount * SumAmounts(m.bets)) % SumAmounts(winners) /= 0
           /\ SumPayouts(response.payouts) = SumAmounts(m.bets)

\* C2: in every reachable state every account's balance is at least 0.
C2_NoNegativeBalance == \A u \in DOMAIN users : users[u].balance >= 0

\* A bet was just refused for lack of funds while an account stands at 0.
C2_Witness ==
    /\ response.kind = "bet_insufficient"
    /\ \E u \in DOMAIN users : users[u].balance = 0

BetRejections ==
    {"bet_usage", "bet_not_found", "bet_closed", "bet_option_nan",
     "bet_option_range", "bet_amount_nan", "bet_nonpositive", "bet_insufficient"}

\* C3: a bet command that is refused, whatever the reason, leaves every
\* balance, every bets_placed counter and every market's stake list as they
\* were.
C3_RejectedBetNoEffect ==
    [][response'.kind \in BetRejections =>
          /\ \A u \in DOMAIN users' :
                /\ users'[u].balance = BalanceOf(users, u)
                /\ users'[u].bets_placed = BetsPlacedOf(users, u)
          /\ DOMAIN markets' = DOMAIN markets
          /\ \A mid \in DOMAIN markets : markets'[mid].bets = markets[mid].bets]_vars

\* A bet was just refused for lack of funds: the bettor had staked before
\* and a market is open with stakes on it.
C3_Witness ==
    /\ response.kind = "bet_insufficient"
    /\ response.balance = 500
    /\ \E mid \in DOMAIN markets :
          markets[mid].status = "open" /\ markets[mid].bets /= <<>>

\* C4: a resolve or cancel command against a market that is already resolved
\* or cancelled is refused and changes no balance, no lifetime_winnings and
\* no market; no settled market ever changes, and balances only grow in a
\* step that takes a market out of the open status, so each stake is paid out
\* or refunded at most once.
C4_IdempotentTerminality ==
    [][/\ response'.kind \in {"resolve_already", "cancel_already"} =>
             /\ \A u \in DOMAIN users' :
                   /\ users'[u].balance = BalanceOf(users, u)
                   /\ users'[u].lifetime_winnings = WinningsOf(users, u)
             /\ markets' = markets
       /\ \A mid \in DOMAIN markets :
             markets[mid].status /= "open" => markets'[mid] = markets[mid]
       /\ (\E u \in DOMAIN users' : Credited(u) > 0) =>
             \E mid \in DOMAIN markets : Settles(mid)]_vars

\* A cancel was just refused because the market, which holds stakes, had
\* been settled before.
C4_Witness ==
    /\ response.kind = "cancel_already"
    /\ \E mid \in DOMAIN markets :
          markets[mid].status = "resolved" /\ markets[mid].bets /= <<>>

(***************************************************************************)
(* Settlement, stated stake by stake.  A resolve that was carried out      *)
(* names its market and the chosen option in the reply.                    *)
(***************************************************************************)
ResolveReplies == {"resolve_wins", "resolve_refunded"}

RECURSIVE SumSeq(_)
SumSeq(q) == IF q = <<>> THEN 0 ELSE q[1] + SumSeq(Tail(q))

\* floor(amount * total_pool / winners_total) of each winning stake, in stake
\* order.
Floored(bets, w) ==
    LET winners == StakesOn(bets, w)
        pool == SumAmounts(bets)
        winners_total == SumAmounts(winners)
    IN  [i \in 1..Len(winners) |-> (winners[i].amount * pool) \div winners_total]

\* The sum of pay over the winning stakes that are u's.
PaidTo(u, winners, pay) ==
    SumSeq([i \in 1..Len(winners) |-> IF winners[i].user = u THEN pay[i] ELSE 0])

\* C5: a resolution with winners credits each winning stake's bettor the
\* floor of stake * total_pool / winners_total plus 0 or 1, adds the same to
\* the bettor's lifetime_winnings and credits nothing for losing stakes;
\* stakes of 300 and 100 on the winner against 200 on the loser pay 450 and
\* 150.
C5_ProRataPayout ==
    [][response'.kind \in ResolveReplies =>
          LET bets == markets[response'.market_id].bets
              w == response'.winning_idx
              winners == StakesOn(bets, w)
              floored == Floored(bets, w)
          IN  winners /= <<>> =>
                /\ \E extra \in [1..Len(winners) -> {0, 1}] :
                      \A u \in DOMAIN users' :
                         /\ Credited(u) =
                               PaidTo(u, winners,
                                      [i \in 1..Len(winners) |-> floored[i] + extra[i]])
                         /\ Won(u) = Credited(u)
                /\ \A u \in DOMAIN users' :
                      StakesOf(winners, u) = <<>> => Credited(u) = 0
                /\ ( /\ [i \in 1..Len(bets) |-> bets[i].amount] = <<300, 100, 200>>
                     /\ [i \in 1..Len(bets) |-> bets[i].option_index] = <<w, w, 1 - w>> )
                      => [i \in 1..2 |-> response'.payouts[i][2]] = <<450, 150>>]_vars

\* The example: 300 and 100 on the winner, 200 on the loser, just resolved.
C5_Witness ==
    /\ response.kind = "resolve_wins"
    /\ markets[response.market_id].bets =
          <<Bet("u1", 0, 300), Bet("u2", 0, 100), Bet("u2", 1, 200)>>
    /\ response.payouts = <<<<"u1", 450>>, <<"u2", 150>>>>
    /\ users["u1"].balance = 1150 /\ users["u1"].lifetime_winnings = 450
    /\ users["u2"].balance = 850 /\ users["u2"].lifetime_winnings = 150

\* The place of winning stake i in the order 'floored payout descending,
\* ties by stake order'.
Rank(floored, i) ==
    1 + Cardinality({j \in 1..Len(floored) :
                        \/ floored[j] > floored[i]
                        \/ floored[j] = floored[i] /\ j < i})

\* The final payout of each winning stake, in stake order: the floored payout
\* and one unit more for the first r stakes of that order, r being what the
\* floored payouts leave of the pool.
FinalPayouts(bets, w) ==
    LET floored == Floored(bets, w)
        r == SumAmounts(bets) - SumSeq(floored)
    IN  [i \in 1..Len(floored) |->
            floored[i] + (IF Rank(floored, i) <= r THEN 1 ELSE 0)]

\* C6: in a resolution with winners the leftover units go, one each, to
\* exactly the first r winning stakes in the order 'floored payout
\* descending, ties by stake order': the payouts listed and credited are the
\* ones that order fixes from the stake sequence.
C6_RemainderOrder ==
    [][response'.kind = "resolve_wins" =>
          LET bets == markets[response'.market_id].bets
              w == response'.winning_idx
              winners == StakesOn(bets, w)
              floored == Floored(bets, w)
              final == FinalPayouts(bets, w)
          IN  /\ Len(response'.payouts) = Len(winners)
              /\ \A i \in 1..Len(winners) :
                    response'.payouts[Rank(floored, i)] = <<winners[i].user, final[i]>>
              /\ \A u \in DOMAIN users' : Credited(u) = PaidTo(u, winners, final)]_vars

\* Two winning stakes of equal amount and different bettors, one leftover
\* unit: the earlier stake got it.
C6_Witness ==
    /\ response.kind = "resolve_wins"
    /\ LET m == markets[response.market_id]
           winners == StakesOn(m.bets, m.winning_option)
       IN  /\ Len(winners) = 2
           /\ winners[1].amount = winners[2].amount
           /\ winners[1].user /= winners[2].user
           /\ response.payouts[1] = <<winners[1].user, response.payouts[2][2] + 1>>

\* C7: resolving a market to an option nobody staked on credits each bettor
\* the sum of the bettor's own stakes in that market, leaves every
\* lifetime_winnings as it was and records the market as resolved with the
\* chosen option.
C7_DegenerateResolution ==
    [][response'.kind \in ResolveReplies =>
          LET mid == response'.market_id
              bets == markets[mid].bets
              w == response'.winning_idx
          IN  StakesOn(bets, w) = <<>> =>
                /\ \A u \in DOMAIN users' :
                      /\ Credited(u) = SumAmounts(StakesOf(bets, u))
                      /\ Won(u) = 0
                /\ markets'[mid].status = "resolved"
                /\ markets'[mid].winning_option = w
                /\ markets'[mid].bets = bets]_vars

\* A market with stakes of both users, two of them by the same one, was just
\* resolved to the option nobody backed.
C7_Witness ==
    /\ response.kind = "resolve_refunded"
    /\ LET m == markets[response.market_id]
       IN  /\ m.status = "resolved"
           /\ StakesOn(m.bets, m.winning_option) = <<>>
           /\ \E u \in DOMAIN users : Len(StakesOf(m.bets, u)) = 2
           /\ \E u \in DOMAIN users : Len(StakesOf(m.bets, u)) = 1

(***************************************************************************)
(* Cancellation, lifecycle and placement.                                  *)
(***************************************************************************)
\* C8: cancelling an open market credits every stake's amount back to its
\* bettor, leaves lifetime_winnings, bets_placed and the stake list as they
\* were and sets the status to cancelled with no winning option; a market
\* only becomes cancelled that way.
C8_CancelRefunds ==
    [][/\ response'.kind = "cancelled" =>
             LET mid == response'.market_id
                 bets == markets[mid].bets
             IN  /\ markets[mid].status = "open"
                 /\ \A u \in DOMAIN users' :
                       /\ Credited(u) = SumAmounts(StakesOf(bets, u))
                       /\ Won(u) = 0
                       /\ users'[u].bets_placed = BetsPlacedOf(users, u)
                 /\ markets'[mid].bets = bets
                 /\ markets'[mid].status = "cancelled"
                 /\ markets'[mid].winning_option = None
       /\ \A mid \in DOMAIN markets :
             (markets[mid].status = "open" /\ markets'[mid].status = "cancelled")
                => response' = [kind |-> "cancelled", market_id |-> mid]]_vars

\* A market holding two stakes of different bettors was just cancelled.
C8_Witness ==
    /\ response.kind = "cancelled"
    /\ LET m == markets[response.market_id]
       IN  /\ m.status = "cancelled"
           /\ Len(m.bets) = 2
           /\ m.bets[1].user /= m.bets[2].user
           /\ \A u \in DOMAIN users : users[u].balance = STARTING_BALANCE

Statuses == {"open", "resolved", "cancelled"}

\* C9: a market's status only moves from open to resolved or from open to
\* cancelled and never changes afterwards; its stake list only changes by one
\* stake appended while the market is and stays open.
C9_Lifecycle ==
    [][\A mid \in DOMAIN markets :
          /\ mid \in DOMAIN markets'
          /\ markets'[mid].status \in Statuses
          /\ markets'[mid].status /= markets[mid].status =>
                markets[mid].status = "open"
          /\ markets'[mid].bets /= markets[mid].bets =>
                /\ markets[mid].status = "open"
                /\ markets'[mid].status = "open"
                /\ Len(markets'[mid].bets) = Len(markets[mid].bets) + 1
                /\ SubSeq(markets'[mid].bets, 1, Len(markets[mid].bets))
                      = markets[mid].bets]_vars

\* A bet on a settled market that holds stakes was just refused.
C9_Witness ==
    /\ response.kind = "bet_closed"
    /\ \E mid \in DOMAIN markets :
          markets[mid].status = "resolved" /\ markets[mid].bets /= <<>>
    /\ \E mid \in DOMAIN markets : markets[mid].status = "cancelled"

\* The stakes of u that are still in escrow or were lost to winners: those in
\* open markets and in markets resolved to an option somebody backed.
Escrowed(m) ==
    \/ m.status = "open"
    \/ m.status = "resolved" /\ StakesOn(m.bets, m.winning_option) /= <<>>

StakedBy(u) ==
    SumOver([mid \in DOMAIN markets |->
                IF Escrowed(markets[mid])
                THEN SumAmounts(StakesOf(markets[mid].bets, u)) ELSE 0],
            DOMAIN markets)

\* Every balance is the starting allotment less the stakes deducted and not
\* refunded, plus the winnings.
StakesDeducted ==
    \A u \in DOMAIN users :
       users[u].balance =
          STARTING_BALANCE - StakedBy(u) + users[u].lifetime_winnings

\* C10: an accepted bet of amount a by u on market m takes exactly a off u's
\* balance, appends exactly the stake (u, outcome, a) to m, adds 1 to u's
\* bets_placed and changes no other account and no other market; so what was
\* deducted from an account is always the sum of its stakes.
C10_PlacementExact ==
    [][/\ response'.kind = "bet_accepted" =>
             LET mid == response'.market_id
                 old == markets[mid].bets
                 new == markets'[mid].bets
                 stake == new[Len(new)]
                 u == stake.user
             IN  /\ new = Append(old, Bet(u, response'.option_index, response'.amount))
                 /\ markets' = [markets EXCEPT ![mid].bets = new]
                 /\ next_market_id' = next_market_id
                 /\ BalanceOf(users, u) - users'[u].balance = stake.amount
                 /\ users'[u].bets_placed = BetsPlacedOf(users, u) + 1
                 /\ users'[u].lifetime_winnings = WinningsOf(users, u)
                 /\ DOMAIN users' = DOMAIN users \cup {u}
                 /\ \A v \in DOMAIN users' \ {u} : users'[v] = users[v]
       /\ StakesDeducted']_vars

\* A bet of a whole balance was just accepted while another market holds a
\* stake.
C10_Witness ==
    /\ response.kind = "bet_accepted"
    /\ response.amount = STARTING_BALANCE
    /\ \E u \in DOMAIN users : users[u].balance = 0 /\ users[u].bets_placed = 1
    /\ \E mid \in DOMAIN markets :
          mid /= response.market_id /\ markets[mid].bets /= <<>>

(***************************************************************************)
(* Concurrency.                                                            *)
(***************************************************************************)
\* The positions between taking the lock and releasing it.
CriticalSection == {"handler", "bet_debit", "bet_append", "settle_credit", "save", "return"}

InCritical(t) == frame[t].pc \in CriticalSection

\* t has debited a stake that it has not yet appended to the market.
MidBet(t) == frame[t].pc = "bet_append"

\* t has credited some of a settlement, or all of it with the market still
\* open.
MidSettle(t) ==
    /\ frame[t].pc = "settle_credit"
    /\ LET f == frame[t]
           all == IF f.winnings THEN f.reply.payouts
                  ELSE Refunds(markets[f.market_id].bets)
       IN  all /= <<>> /\ Len(f.queue) < Len(all)

\* C11: a thread is between a handler's first check and the return after the
\* snapshot write only while it holds the lock, so at most one thread is;
\* while a stake is debited but not yet recorded, or a market is partly
\* settled, no other thread is inside a handler or a snapshot write; and the
\* registry, the id counter and the state file only change in a step of the
\* thread that holds the lock.
C11_MutualExclusion ==
    /\ [](\A t \in Threads :
             /\ InCritical(t) => lock = t
             /\ (MidBet(t) \/ MidSettle(t)) =>
                   \A o \in Threads \ {t} : ~InCritical(o))
    /\ [][(markets' /= markets \/ next_market_id' /= next_market_id \/ disk' /= disk)
             => /\ lock \in Threads
                /\ InCritical(lock)
                /\ frame'[lock] /= frame[lock]
                /\ \A o \in Threads \ {lock} : frame'[o] = frame[o]]_vars

\* One thread has debited a stake it has not recorded yet, and the other
\* waits for the lock with a balance query of the same user.
C11_Witness ==
    \E t \in Threads, o \in Threads :
       /\ MidBet(t)
       /\ users[frame[t].user].balance = STARTING_BALANCE - frame[t].amount
       /\ markets[frame[t].market_id].bets = <<>>
       /\ frame[o].pc = "acquire"
       /\ frame[o].cmd = "balance"
       /\ frame[o].user = frame[t].user

(***************************************************************************)
(* The registry and the state file.                                        *)
(***************************************************************************)
\* C12: over open, bet, resolve, cancel and restart steps the id counter
\* never goes down and no market id is forgotten; a market is added only
\* under the id the counter formats, which no market has, and with it the
\* counter goes up by one; every id in the registry was formatted from a
\* smaller counter value.
C12_IdsNeverReused ==
    /\ [](\A mid \in DOMAIN markets :
             \E k \in 1..(next_market_id - 1) : mid = FormatId(k))
    /\ [][/\ next_market_id' >= next_market_id
          /\ DOMAIN markets \subseteq DOMAIN markets'
          /\ (DOMAIN markets' /= DOMAIN markets \/ next_market_id' /= next_market_id) =>
                /\ FormatId(next_market_id) \notin DOMAIN markets
                /\ DOMAIN markets' = DOMAIN markets \cup {FormatId(next_market_id)}
                /\ next_market_id' = next_market_id + 1]_vars

\* The process was just started again from a file that holds a cancelled
\* first market and a second market: the counter stands behind both ids.
C12_Witness ==
    /\ response.kind = "restarted"
    /\ DOMAIN markets = {FormatId(1), FormatId(2)}
    /\ markets[FormatId(1)].status = "cancelled"
    /\ next_market_id = 3

\* C13: every market in the registry has at least two outcomes, and no two
\* of them are the same string.
C13_DistinctOutcomes ==
    \A mid \in DOMAIN markets :
       LET options == markets[mid].options
       IN  /\ Len(options) >= 2
           /\ \A i \in 1..Len(options), j \in 1..Len(options) :
                 i /= j => options[i] /= options[j]

\* This step is the open command of user with these segments.
OpenStep(user, argline) ==
    Command(user, Message("open", argline), MaxMarkets, MaxBets)

OpenRejections ==
    {"open_usage", "open_no_question", "open_few_options", "open_long_option"}

\* The open command was refused and left the registry, the id counter and
\* every markets_created counter as they were.
OpenRefused ==
    /\ response'.kind \in OpenRejections
    /\ markets' = markets
    /\ next_market_id' = next_market_id
    /\ \A u \in DOMAIN users' :
          users'[u].markets_created =
             (IF u \in DOMAIN users THEN users[u].markets_created ELSE 0)

NonEmpty(segments) == SelectSeq(segments, LAMBDA opt : opt /= "")

TooLong(segments) == \E i \in 1..Len(segments) : StrLen(segments[i]) > MaxOptionLen

\* C14 as stated: an open command whose outcome list has an empty string, an
\* outcome over the length bound or fewer than two outcomes is refused
\* without a market, an id or a markets_created count.
C14_BadOutcomesRejected ==
    [][\A user \in Creators, argline \in OpenArglinesAll :
          ( /\ \/ \E i \in 1..Len(Tail(argline)) : Tail(argline)[i] = ""
               \/ TooLong(Tail(argline))
               \/ Len(Tail(argline)) < 2
            /\ OpenStep(user, argline) )
          => OpenRefused]_vars

\* C14: an open command with an outcome over the length bound or with fewer
\* than two non-empty outcomes is refused without a market, an id or a
\* markets_created count; empty outcome strings are dropped, and an accepted
\* command stores exactly its non-empty outcomes, in order.
C14_InvalidOpenRejected ==
    [][\A user \in Creators, argline \in OpenArglinesAll :
          OpenStep(user, argline) =>
             LET options == NonEmpty(Tail(argline))
             IN  /\ (TooLong(options) \/ Len(options) < 2) => OpenRefused
                 /\ response'.kind = "open_created" =>
                       /\ markets'[response'.market_id].options = options
                       /\ ~TooLong(options)
                       /\ Len(options) >= 2]_vars

\* An open command was just refused for its outcomes after another had been
\* accepted.
C14_Witness ==
    /\ response.kind \in {"open_few_options", "open_long_option"}
    /\ next_market_id = 2
    /\ users["u1"].markets_created = 1

MutatingCommands == {"open", "bet", "resolve", "cancel"}

\* C15: when the snapshot write of an open, bet, resolve or cancel command
\* raises, the registry and the id counter are what they were before the
\* command, and so is the ledger, but for the caller's account if the caller
\* was new.
C15_FailedSaveAborts ==
    [][\A call \in ThreadCalls :
          (call[2].cmd \in MutatingCommands /\ SaveRaisesIn(call)) =>
             /\ markets' = markets
             /\ next_market_id' = next_market_id
             /\ users' = ensure_user(users, call[1])]_vars

\* The ledger, the registry and the id counter, as _load_state sets them.
Memory(us, ms, nid) == [users |-> us, markets |-> ms, next_market_id |-> nid]

\* C16: when an open, bet, resolve or cancel command has been carried out,
\* the state file holds a complete snapshot that loads to the ledger, the
\* registry and the id counter as the command left them; a restart that
\* follows the command sets exactly that state.
C16_WriteThrough ==
    [][/\ response'.kind \in AcceptedKinds =>
             /\ Parses(disk')
             /\ load_state(disk') = Memory(users', markets', next_market_id')
       /\ (response.kind \in AcceptedKinds /\ response'.kind = "restarted") =>
             Memory(users', markets', next_market_id')
                = Memory(users, markets, next_market_id)]_vars

\* The process was just started again and holds a resolved market with its
\* winnings and a cancelled one, as the file has them.
C16_Witness ==
    /\ response.kind = "restarted"
    /\ \E mid \in DOMAIN markets :
          markets[mid].status = "resolved" /\ markets[mid].bets /= <<>>
    /\ \E mid \in DOMAIN markets : markets[mid].status = "cancelled"
    /\ \E u \in DOMAIN users : users[u].lifetime_winnings > 0
    /\ load_state(disk) = Memory(users, markets, next_market_id)

\* C17: when the process dies during a snapshot write, the state file holds
\* a complete snapshot afterwards, and no start of the process fails to load
\* the file.
C17_CrashSafeSnapshot ==
    [][/\ response'.kind = "crashed" => Parses(disk')
       /\ response'.kind /= "load_failed"]_vars

\* The registry holds an open, a resolved and a cancelled market.
AllStatuses(ms) ==
    \A status \in {"open", "resolved", "cancelled"} :
        \E mid \in DOMAIN ms : ms[mid].status = status

\* The accounts, stake lists, statuses, winning options and id counter of
\* `loaded` are those of the ledger us, the registry ms and the counter nid.
SameState(loaded, us, ms, nid) ==
    /\ DOMAIN loaded.users = DOMAIN us
    /\ \A u \in DOMAIN us :
          /\ loaded.users[u].balance = us[u].balance
          /\ loaded.users[u].lifetime_winnings = us[u].lifetime_winnings
          /\ loaded.users[u].markets_created = us[u].markets_created
          /\ loaded.users[u].bets_placed = us[u].bets_placed
    /\ DOMAIN loaded.markets = DOMAIN ms
    /\ \A mid \in DOMAIN ms :
          /\ loaded.markets[mid].bets = ms[mid].bets
          /\ loaded.markets[mid].status = ms[mid].status
          /\ loaded.markets[mid].winning_option = ms[mid].winning_option
    /\ loaded.next_market_id = nid

\* C18: when the registry holds an open, a resolved and a cancelled market,
\* saving the state and loading what was saved gives the same account
\* balances and counters, the same stake lists in the same order, the same
\* statuses and winning options and the same id counter; and so does a
\* restart from the file a command has just written.
C18_RoundTrip ==
    /\ [](AllStatuses(markets) =>
            SameState(load_state(json_dumps(save_state(users, markets,
                                                       next_market_id))),
                      users, markets, next_market_id))
    /\ [][(AllStatuses(markets) /\ response.kind \in AcceptedKinds
              /\ response'.kind = "restarted") =>
             SameState(Memory(users', markets', next_market_id'),
                       users, markets, next_market_id)]_vars

\* The process was started again from a file with an open market that holds
\* a stake, a market resolved to its first option with a stake on it, and
\* a cancelled market.
C18_Witness ==
    /\ response.kind = "restarted"
    /\ AllStatuses(markets)
    /\ \E mid \in DOMAIN markets :
          /\ markets[mid].status = "resolved"
          /\ markets[mid].winning_option = 0
          /\ markets[mid].bets /= <<>>
    /\ \E mid \in DOMAIN markets :
          markets[mid].status = "open" /\ Len(markets[mid].bets) = 1
    /\ next_market_id = 4

\* C19: in every reachable state a market has a winning option if and only
\* if its status is resolved, and a winning option is an index into the
\* market's options; open and cancelled markets have none.
C19_WinningOptionIffResolved ==
    \A mid \in DOMAIN markets :
        LET m == markets[mid]
        IN  /\ m.winning_option /= None <=> m.status = "resolved"
            /\ m.winning_option /= None =>
                  m.winning_option \in 0..(Len(m.options) - 1)
            /\ m.status \in {"open", "cancelled"} => m.winning_option = None

\* A market was just resolved to its last option, next to a cancelled market
\* that holds stakes.
C19_Witness ==
    /\ response.kind \in ResolveReplies
    /\ \E mid \in DOMAIN markets :
          /\ markets[mid].status = "resolved"
          /\ markets[mid].winning_option = Len(markets[mid].options) - 1
    /\ \E mid \in DOMAIN markets :
          markets[mid].status = "cancelled" /\ markets[mid].bets /= <<>>

\* The balances of all accounts together.
TotalBalances(us) == SumOver([u \in DOMAIN us |-> us[u].balance], DOMAIN us)

\* The pools of the markets that are still open together.
OpenPools(ms) ==
    SumOver([mid \in DOMAIN ms |->
                IF ms[mid].status = "open" THEN total_pool(ms[mid]) ELSE 0],
            DOMAIN ms)

\* C20: after any sequence of commands carried out one at a time, the
\* balances of all accounts plus the pools of the markets that are still open
\* add up to the starting balance times the number of accounts.
C20_GlobalConservation ==
    TotalBalances(users) + OpenPools(markets)
        = STARTING_BALANCE * Cardinality(DOMAIN users)

\* Two accounts or more, a stake held in a market that is still open, and
\* a settled market whose stakes were paid out or given back.
C20_Witness ==
    /\ Cardinality(DOMAIN users) >= 2
    /\ OpenPools(markets) > 0
    /\ \E u \in DOMAIN users : users[u].balance < STARTING_BALANCE
    /\ \E mid \in DOMAIN markets :
          /\ markets[mid].status \in {"resolved", "cancelled"}
          /\ markets[mid].bets /= <<>>

(***************************************************************************)
(* Account creation under concurrent calls.                                *)
(***************************************************************************)
\* This step is taken by the thread that holds the lock.
LockHolderStep ==
    /\ lock \in Threads
    /\ frame'[lock] /= frame[lock]
    /\ \A o \in Threads \ {lock} : frame'[o] = frame[o]

\* An account that exists stays, and changes only by what a handler does to
\* it under the lock.
AccountsKept ==
    \A u \in DOMAIN users :
        /\ u \in DOMAIN users'
        /\ users'[u] /= users[u] => LockHolderStep

\* While a thread is inside a handler or the snapshot write, no other thread
\* changes the ledger.
LedgerQuietUnderLock ==
    (users' /= users /\ lock \in Threads /\ InCritical(lock)) => LockHolderStep

\* C21: in every interleaving of process_command calls, an account that
\* exists is never replaced or reset by _ensure_user, so it only changes by
\* the bets and payouts applied to it under the lock, and the ledger is never
\* changed by one thread while another holds the lock to read or save it.
C21_LazyCreationSafe == [][AccountsKept /\ LedgerQuietUnderLock]_vars

(***************************************************************************)
(* The payouts of a resolution with winners, stake by stake.               *)
(***************************************************************************)
\* What the reply lists for winning stake i of bets on option w: the sort
\* puts the stake's payout at place Rank.
Paid(payouts, bets, w, i) == payouts[Rank(Floored(bets, w), i)][2]

\* C22: in a resolution with winners, a winning stake of a larger amount is
\* never paid less than one of a smaller amount, two winning stakes of equal
\* amount are paid the same or one unit apart, and the leftover of the floor
\* divisions is smaller than the number of winning stakes.
C22_FairOrdering ==
    [][response'.kind = "resolve_wins" =>
          LET bets == markets[response'.market_id].bets
              w == response'.winning_idx
              winners == StakesOn(bets, w)
              paid == [i \in 1..Len(winners) |-> Paid(response'.payouts, bets, w, i)]
          IN  /\ \A i, j \in 1..Len(winners) :
                    /\ winners[i].amount > winners[j].amount => paid[i] >= paid[j]
                    /\ winners[i].amount = winners[j].amount =>
                          paid[i] - paid[j] \in {-1, 0, 1}
              /\ SumAmounts(bets) - SumSeq(Floored(bets, w)) < Len(winners)]_vars

\* A resolution has just paid two winning stakes of different amounts and
\* one leftover unit, which went to the larger stake.
C22_Witness ==
    /\ response.kind = "resolve_wins"
    /\ LET m == markets[response.market_id]
           winners == StakesOn(m.bets, m.winning_option)
           floored == Floored(m.bets, m.winning_option)
       IN  /\ Len(winners) = 2
           /\ winners[1].amount < winners[2].amount
           /\ SumAmounts(m.bets) - SumSeq(floored) = 1
           /\ response.payouts[1][2] = floored[2] + 1
           /\ response.payouts[2][2] = floored[1]

\* C23: in a resolution with winners every winning stake is paid at least
\* its amount, so the step credits each winning bettor at least the sum of
\* that bettor's winning stakes, and the bettor's balance afterwards is at
\* least the balance before the bettor's stakes on the market (the starting
\* balance, the market being the only one) less the bettor's losing stakes.
C23_WinnerNeverLoses ==
    [][response'.kind = "resolve_wins" =>
          LET bets == markets[response'.market_id].bets
              w == response'.winning_idx
              winners == StakesOn(bets, w)
          IN  /\ \A i \in 1..Len(winners) :
                    Paid(response'.payouts, bets, w, i) >= winners[i].amount
              /\ \A u \in DOMAIN users' :
                    StakesOf(winners, u) /= <<>> =>
                       /\ Credited(u) >= SumAmounts(StakesOf(winners, u))
                       /\ users'[u].balance >=
                             STARTING_BALANCE
                                - (SumAmounts(StakesOf(bets, u))
                                     - SumAmounts(StakesOf(winners, u)))]_vars

\* A bettor with a winning and a losing stake on the market was just paid,
\* with no other bettor's stake to win: the balance is the starting balance
\* again.
C23_Witness ==
    /\ response.kind = "resolve_wins"
    /\ LET m == markets[response.market_id]
           winners == StakesOn(m.bets, m.winning_option)
       IN  \E u \in DOMAIN users :
              /\ StakesOf(winners, u) /= <<>>
              /\ Len(StakesOf(m.bets, u)) > Len(StakesOf(winners, u))
              /\ Len(StakesOf(m.bets, u)) = Len(m.bets)
              /\ users[u].balance = STARTING_BALANCE

====
